---- MODULE Spec2Model ----
\* Model of bot.py: the message parser (extract_message_parts and the
\* NOISE_PATTERNS chain), the content fetcher (fetch_twitter_content,
\* fetch_url_content), the language-model enricher (get_category_from_claude,
\* get_title_and_category_from_claude), persistence (save_to_notion) and the
\* handler that orchestrates them (handle_message).
\*
\* A Python str is a sequence of one-character strings.  The CJK characters of
\* NOISE_PATTERNS are written by code point ("u590D" is U+590D) and the
\* full-width comma is "uFF0C".  An optional value (str | None) is a sequence
\* of length at most one: None is <<>> and the string s is <<s>>.
EXTENDS Integers, Sequences, FiniteSets, TLC

VARIABLES
    pc,               \* position of the handler (or of the function under test)
    text,             \* update.message.text / the function's input
    title,            \* handle_message: title (optional)
    url,              \* handle_message: url (optional)
    needs_fetching,   \* handle_message: needs_fetching
    cleaned,          \* extract_message_parts: text_before_url after the noise loop
    recleaned,        \* the noise loop applied to `cleaned` once more
    content,          \* handle_message: content returned by fetch_url_content
    category,         \* handle_message: category (optional until classified)
    content_to_save,  \* handle_message: content_to_save (optional until set)
    saved,            \* what save_to_notion returned: <<>> before the call, then <<success, error>>
    replies,          \* arguments of update.message.reply_text, in order
    calls,            \* external and collaborator calls of this message, in order
    escaped,          \* TRUE when an exception left handle_message
    response          \* the outcome of the language-model call under test

vars == <<pc, text, title, url, needs_fetching, cleaned, recleaned,
          content, category, content_to_save, saved,
          replies, calls, escaped, response>>

-----------------------------------------------------------------------------
\* Python str primitives

None == <<>>

Some(s) == <<s>>

Min(S) == CHOOSE x \in S : \A y \in S : x <= y

Max(S) == CHOOSE x \in S : \A y \in S : x >= y

UpperChars == <<"A", "B", "C", "D", "E", "F", "G", "H", "I", "J", "K", "L", "M", "N", "O", "P", "Q", "R", "S", "T", "U", "V", "W", "X", "Y", "Z">>

LowerChars == <<"a", "b", "c", "d", "e", "f", "g", "h", "i", "j", "k", "l", "m", "n", "o", "p", "q", "r", "s", "t", "u", "v", "w", "x", "y", "z">>

Digits == {"0", "1", "2", "3", "4", "5", "6", "7", "8", "9"}

\* \s of the re module and the characters str.strip() removes
IsSpace(c) == c \in {" ", "\n", "\t", "\r"}

\* \w of the re module, over the characters of the model
IsWord(c) ==
    \/ c \in Digits
    \/ c = "_"
    \/ \E i \in 1..26 : c = UpperChars[i] \/ c = LowerChars[i]

LowerChar(c) ==
    IF \E i \in 1..26 : UpperChars[i] = c
    THEN LowerChars[CHOOSE i \in 1..26 : UpperChars[i] = c]
    ELSE c

RECURSIVE lower(_)
\* str.lower()
lower(s) == IF s = <<>> THEN <<>> ELSE <<LowerChar(Head(s))>> \o lower(Tail(s))

\* str.strip()
strip(s) ==
    LET keep == {i \in 1..Len(s) : ~IsSpace(s[i])}
    IN  IF keep = {} THEN <<>> ELSE SubSeq(s, Min(keep), Max(keep))

\* s[i-1:].startswith(p), 1-based i
StartsWithAt(s, i, p) ==
    /\ i >= 1
    /\ i + Len(p) - 1 <= Len(s)
    /\ \A k \in 1..Len(p) : s[i + k - 1] = p[k]

\* the same, ignoring case (re.IGNORECASE on a literal)
StartsWithAtI(s, i, p) ==
    /\ i >= 1
    /\ i + Len(p) - 1 <= Len(s)
    /\ \A k \in 1..Len(p) : LowerChar(s[i + k - 1]) = LowerChar(p[k])

\* s.startswith(p)
startswith(s, p) == StartsWithAt(s, 1, p)

\* p in s
Contains(s, p) == \E i \in 1..(Len(s) - Len(p) + 1) : StartsWithAt(s, i, p)

\* the positions where p occurs in s, as str.replace and str.find see them
FirstAt(s, p, from) ==
    LET at == {i \in from..(Len(s) - Len(p) + 1) : StartsWithAt(s, i, p)}
    IN  IF at = {} THEN 0 ELSE Min(at)

RECURSIVE RemoveAllFrom(_, _, _)
\* s.replace(p, ""), scanning from position `from`; p is not empty
RemoveAllFrom(s, p, from) ==
    LET i == FirstAt(s, p, from)
    IN  IF i = 0
        THEN SubSeq(s, from, Len(s))
        ELSE SubSeq(s, from, i - 1) \o RemoveAllFrom(s, p, i + Len(p))

\* s.replace(p, "")
RemoveAll(s, p) == RemoveAllFrom(s, p, 1)

RECURSIVE SplitFrom(_, _)
\* s.split("\n"), scanning from position `from`
SplitFrom(s, from) ==
    LET nl == {i \in from..Len(s) : s[i] = "\n"}
    IN  IF nl = {}
        THEN <<SubSeq(s, from, Len(s))>>
        ELSE <<SubSeq(s, from, Min(nl) - 1)>> \o SplitFrom(s, Min(nl) + 1)

\* s.split("\n")
split_lines(s) == SplitFrom(s, 1)

RECURSIVE Flatten(_)
\* "".join(seq)
Flatten(seq) == IF seq = <<>> THEN <<>> ELSE Head(seq) \o Flatten(Tail(seq))

RECURSIVE Join(_, _)
\* sep.join(seq)
Join(seq, sep) ==
    IF seq = <<>> THEN <<>>
    ELSE IF Len(seq) = 1 THEN Head(seq)
    ELSE Head(seq) \o sep \o Join(Tail(seq), sep)

-----------------------------------------------------------------------------
\* bot.py 29-71: URL_PATTERN, NOISE_PATTERNS, extract_message_parts

S_http == <<"h", "t", "t", "p">>

S_colon_slashes == <<":", "/", "/">>

\* the last index of the run of non-whitespace characters that starts at b
RunEnd(s, b) ==
    LET stops == {j \in b..Len(s) : IsSpace(s[j])}
    IN  IF stops = {} THEN Len(s) ELSE Min(stops) - 1

\* URL_PATTERN = https?://[^\s]+ matched at position i: the index of the
\* match's last character, 0 when the pattern does not match at i
URL_PATTERN_match(s, i) ==
    IF ~StartsWithAt(s, i, S_http) THEN 0
    ELSE LET a == IF i + 4 <= Len(s) /\ s[i + 4] = "s" THEN i + 5 ELSE i + 4
             b == a + 3
         IN  IF StartsWithAt(s, a, S_colon_slashes) /\ b <= Len(s) /\ ~IsSpace(s[b])
             THEN RunEnd(s, b)
             ELSE 0

\* URL_PATTERN.search(s): <<>> (no match) or <<start, end>> of the leftmost match
URL_PATTERN_search(s) ==
    LET starts == {i \in 1..Len(s) : URL_PATTERN_match(s, i) # 0}
    IN  IF starts = {} THEN <<>>
        ELSE <<Min(starts), URL_PATTERN_match(s, Min(starts))>>

\* Each entry of NOISE_PATTERNS is [,uFF0C]?\s*PHRASE.*$ ; the list holds the
\* PHRASE of each pattern, in list order.
NOISE_PATTERNS == <<
    <<"u590D", "u5236", "u6253", "u5F00", "u6296", "u97F3">>,
    <<"u590D", "u5236", "u6B64", "u94FE", "u63A5">>,
    <<"c", "o", "p", "y", " ", "a", "n", "d", " ", "o", "p", "e", "n", " ", "X", "i", "a", "o", "h", "o", "n", "g", "s", "h", "u">>,
    <<"u6253", "u5F00", "u6296", "u97F3">>,
    <<"u6253", "u5F00", "u5C0F", "u7EA2", "u4E66">>,
    <<"u70B9", "u51FB", "u94FE", "u63A5">> >>

\* re.sub(r'[,uFF0C]?\s*PHRASE.*$', '', s, flags=re.IGNORECASE).
\* Without re.DOTALL `.` stops at a newline and without re.MULTILINE `$`
\* matches only at the end of s or before a final newline, so PHRASE matches
\* only where no newline other than a final one follows it.  The match starts
\* at the leftmost such PHRASE, extended to the left over the whitespace run
\* before it and one comma before that run, and ends at the end of s.
re_sub_noise(phrase, s) ==
    LET n == Len(s)
        DollarOK(q) == \A j \in q..n : s[j] = "\n" => j = n
        occ == {p \in 1..(n - Len(phrase) + 1) :
                    StartsWithAtI(s, p, phrase) /\ DollarOK(p + Len(phrase))}
    IN  IF occ = {} THEN s
        ELSE LET p == Min(occ)
                 a == Max({j \in 1..(p - 1) : ~IsSpace(s[j])} \cup {0}) + 1
                 start == IF a > 1 /\ s[a - 1] \in {",", "uFF0C"} THEN a - 1 ELSE a
                 rest == IF s[n] = "\n" THEN <<"\n">> ELSE <<>>
             IN  SubSeq(s, 1, start - 1) \o rest

RECURSIVE NoiseLoop(_, _)
\* bot.py 64-65: the for loop from pattern k on; each pattern is applied to
\* the stripped result of the one before
NoiseLoop(s, k) ==
    IF k > Len(NOISE_PATTERNS) THEN s
    ELSE NoiseLoop(strip(re_sub_noise(NOISE_PATTERNS[k], s)), k + 1)

\* bot.py 61-65: text_before_url after the loop, for the match m of URL_PATTERN
text_before_url(message, m) == NoiseLoop(strip(SubSeq(message, 1, m[1] - 1)), 1)

\* bot.py 68: the threshold of "meaningful text"
MeaningfulLen == 2

\* extract_message_parts without the branch of line 68-69: every message with
\* a URL is a pure URL
extract_message_parts_always_bare(message) ==
    LET m == URL_PATTERN_search(message)
    IN  IF m = <<>>
        THEN [title |-> None, url |-> None, needs_fetching |-> FALSE]
        ELSE [title |-> None, url |-> Some(SubSeq(message, m[1], m[2])),
              needs_fetching |-> TRUE]

\* extract_message_parts with >= for > on line 68
extract_message_parts_ge(message) ==
    LET m == URL_PATTERN_search(message)
    IN  IF m = <<>>
        THEN [title |-> None, url |-> None, needs_fetching |-> FALSE]
        ELSE LET u == SubSeq(message, m[1], m[2])
                 t == text_before_url(message, m)
             IN  IF t # <<>> /\ Len(t) >= MeaningfulLen
                 THEN [title |-> Some(t), url |-> Some(u), needs_fetching |-> FALSE]
                 ELSE [title |-> None, url |-> Some(u), needs_fetching |-> TRUE]

\* bot.py 43-71
extract_message_parts(message) ==
    LET m == URL_PATTERN_search(message)
    IN  IF m = <<>>
        THEN [title |-> None, url |-> None, needs_fetching |-> FALSE]
        ELSE LET u == SubSeq(message, m[1], m[2])
                 t == text_before_url(message, m)
             IN  IF t # <<>> /\ Len(t) > MeaningfulLen
                 THEN [title |-> Some(t), url |-> Some(u), needs_fetching |-> FALSE]
                 ELSE [title |-> None, url |-> Some(u), needs_fetching |-> TRUE]

-----------------------------------------------------------------------------
\* Results of a Python call: a returned value, or an exception raised to the
\* caller (exc is str(e))

Ok(v) == [raised |-> FALSE, exc |-> "", value |-> v]

Raise(e) == [raised |-> TRUE, exc |-> e, value |-> None]

\* Python truthiness of a value of type str | None
Truthy(v) == v # None /\ v[1] # <<>>

-----------------------------------------------------------------------------
\* bot.py 169-271: CATEGORIES and the two language-model entry points

CATEGORIES == <<
    <<"V", "i", "b", "e", " ", "C", "o", "d", "i", "n", "g">>,
    <<"I", "d", "e", "a", " ", "C", "o", "l", "l", "e", "c", "t", "i", "o", "n">>,
    <<"P", "r", "o", "m", "p", "t", "s", " ", "C", "o", "l", "l", "e", "c", "t", "i", "o", "n">>,
    <<"P", "e", "r", "s", "o", "n", "a", "l", " ", "G", "r", "o", "w", "t", "h">>,
    <<"F", "i", "t", "n", "e", "s", "s">>,
    <<"G", "o", "o", "d", " ", "D", "e", "s", "i", "g", "n">>,
    <<"M", "e", "n", "t", "a", "l", " ", "H", "e", "a", "l", "t", "h">> >>

S_Idea_Collection == <<"I", "d", "e", "a", " ", "C", "o", "l", "l", "e", "c", "t", "i", "o", "n">>

S_Untitled == <<"U", "n", "t", "i", "t", "l", "e", "d">>

S_TITLE == <<"T", "I", "T", "L", "E", ":">>

S_CATEGORY == <<"C", "A", "T", "E", "G", "O", "R", "Y", ":">>

\* c.lower() for each c of CATEGORIES (bot.py 207 and 263)
LowerCategories == [i \in 1..Len(CATEGORIES) |-> lower(CATEGORIES[i])]

\* c in CATEGORIES
in_CATEGORIES(c) == \E i \in 1..Len(CATEGORIES) : CATEGORIES[i] = c

\* bot.py 206-207 and 262-263: the indices of the labels the "close match"
\* loop accepts for cat
CloseMatches(cat) ==
    LET lc == lower(cat)
    IN  {i \in 1..Len(CATEGORIES) :
            \/ Contains(lc, LowerCategories[i])
            \/ Contains(LowerCategories[i], lc)}

\* lines 201-209 without the validation: the model's answer is returned as
\* it is
category_from_text_unvalidated(t) == strip(t)

\* lines 201-209 with the loop of 206-208 keeping the last label that
\* matches instead of returning at the first
category_from_text_last_match(t) ==
    LET category_ == strip(t)
    IN  IF in_CATEGORIES(category_) THEN category_
        ELSE IF CloseMatches(category_) # {}
             THEN CATEGORIES[Max(CloseMatches(category_))]
             ELSE CATEGORIES[2]

\* bot.py 201-209: the body of the try once messages.create has returned
\* the text `t`
category_from_text(t) ==
    LET category_ == strip(t)
    IN  IF in_CATEGORIES(category_) THEN category_
        ELSE IF CloseMatches(category_) # {}
             THEN CATEGORIES[Min(CloseMatches(category_))]
             ELSE CATEGORIES[2]

\* bot.py 184-209: the try block; o is the outcome of
\* claude.messages.create(...) and message.content[0].text
get_category_try(o) ==
    IF o.raised THEN Raise(o.exc) ELSE Ok(category_from_text(o.text))

\* bot.py 180-212
get_category_from_claude(o) ==
    LET r == get_category_try(o)
    IN  IF r.raised THEN Ok(S_Idea_Collection) ELSE r

\* bot.py 256-265: the elif branch for one line that starts with CATEGORY:
\* c is the category before the line
category_from_line(line, c) ==
    LET cat == strip(RemoveAll(line, S_CATEGORY))
    IN  IF in_CATEGORIES(cat) THEN cat
        ELSE IF CloseMatches(cat) # {}
             THEN CATEGORIES[Min(CloseMatches(cat))]
             ELSE c

RECURSIVE parse_lines(_, _, _, _)
\* bot.py 253-265: the for loop from line k on, with the current title t and
\* category c
parse_lines(lines, k, t, c) ==
    IF k > Len(lines) THEN <<t, c>>
    ELSE IF startswith(lines[k], S_TITLE)
         THEN parse_lines(lines, k + 1, strip(RemoveAll(lines[k], S_TITLE)), c)
         ELSE IF startswith(lines[k], S_CATEGORY)
              THEN parse_lines(lines, k + 1, t, category_from_line(lines[k], c))
              ELSE parse_lines(lines, k + 1, t, c)

\* bot.py 247-267
title_and_category_from_text(t) ==
    parse_lines(split_lines(strip(t)), 1, S_Untitled, S_Idea_Collection)

\* bot.py 220-267: the try block
get_title_and_category_try(o) ==
    IF o.raised THEN Raise(o.exc) ELSE Ok(title_and_category_from_text(o.text))

\* bot.py 215-271
get_title_and_category_from_claude(o) ==
    LET r == get_title_and_category_try(o)
    IN  IF r.raised THEN Ok(<<S_Untitled, S_Idea_Collection>>) ELSE r

-----------------------------------------------------------------------------
\* bot.py 74-166: the content fetcher

S_twitter_com == <<"t", "w", "i", "t", "t", "e", "r", ".", "c", "o", "m">>

S_x_com == <<"x", ".", "c", "o", "m">>

S_status == <<"/", "s", "t", "a", "t", "u", "s", "/">>

S_Tweet_by == <<"T", "w", "e", "e", "t", " ", "b", "y", " ">>

\* the last index of the run of \w characters that starts at b (b - 1 if none)
WordRunEnd(s, b) ==
    LET stops == {j \in b..Len(s) : ~IsWord(s[j])}
    IN  IF stops = {} THEN Len(s) ELSE Min(stops) - 1

\* /\w+/status/\d+ matched at position i
StatusPathAt(s, i) ==
    /\ i <= Len(s)
    /\ s[i] = "/"
    /\ WordRunEnd(s, i + 1) >= i + 1
    /\ StartsWithAt(s, WordRunEnd(s, i + 1) + 1, S_status)
    /\ WordRunEnd(s, i + 1) + 1 + Len(S_status) <= Len(s)
    /\ s[WordRunEnd(s, i + 1) + 1 + Len(S_status)] \in Digits

\* bot.py 111-113: re.search(r'(twitter\.com|x\.com)/\w+/status/\d+', url)
is_twitter_url(u) ==
    \E i \in 1..Len(u) :
        \/ StartsWithAt(u, i, S_twitter_com) /\ StatusPathAt(u, i + Len(S_twitter_com))
        \/ StartsWithAt(u, i, S_x_com) /\ StatusPathAt(u, i + Len(S_x_com))

\* bot.py 79-104: the try block of fetch_twitter_content; o is what the
\* oembed request and the parsing of its body produce
fetch_twitter_try(o) ==
    IF o.kind # "data" THEN Raise(o.kind)
    ELSE LET tweet_text == IF o.html # None /\ o.html[1].blockquote
                           THEN Join(o.html[1].paragraphs, <<" ">>)
                           ELSE <<>>
         IN  IF tweet_text # <<>> THEN Ok(Some(strip(tweet_text)))
             ELSE IF o.author_name # None
                  THEN Ok(Some(S_Tweet_by \o o.author_name[1]))
                  ELSE Ok(None)

\* bot.py 74-108
fetch_twitter_content(o) ==
    LET r == fetch_twitter_try(o)
    IN  IF r.raised THEN Ok(None) ELSE r

\* bot.py 128-162: the try block of fetch_url_content; o is what the GET and
\* the parsing of the page produce
fetch_generic_try(o) ==
    IF o.kind # "page" THEN Raise(o.kind)
    ELSE IF Truthy(o.og_description) THEN Ok(o.og_description)
    ELSE IF Truthy(o.twitter_description) THEN Ok(o.twitter_description)
    ELSE IF Truthy(o.description) THEN Ok(o.description)
    ELSE IF Truthy(o.og_title) THEN Ok(o.og_title)
    ELSE IF Truthy(o.title_string) THEN Ok(Some(strip(o.title_string[1])))
    ELSE Ok(None)

\* fetch_url_content without the except clause of lines 164-166
fetch_generic_uncaught(o) == fetch_generic_try(o)

\* bot.py 128-166
fetch_generic(o) ==
    LET r == fetch_generic_try(o)
    IN  IF r.raised THEN Ok(None) ELSE r

-----------------------------------------------------------------------------
\* bot.py 274-320: persistence

\* bot.py 276-317: the try block; o is the outcome of notion.pages.create
save_to_notion_try(title_, category_, content_, o) ==
    IF o.kind = "created" THEN Ok(<<TRUE, "">>) ELSE Raise(o.exc)

\* bot.py 274-320
save_to_notion(title_, category_, content_, o) ==
    LET r == save_to_notion_try(title_, category_, content_, o)
    IN  IF r.raised THEN Ok(<<FALSE, r.exc>>) ELSE r

-----------------------------------------------------------------------------
\* Inputs

\* the longest text before the tail of a parser input, in pieces
MaxPieces == 3

\* the longest language-model response, in lines
MaxLines == 2

\* SeqsUpTo(S, n): the sequences over S of length at most n
SeqsUpTo(S, n) == UNION {[1..k -> S] : k \in 0..n}

Pieces == {
    <<"a">>,
    <<"H", "e", "y">>,
    <<",">>,
    <<"uFF0C">>,
    <<" ">>,
    <<"\n">>,
    <<"u590D", "u5236", "u6253", "u5F00", "u6296", "u97F3">>,
    <<"C", "o", "p", "y", " ", "A", "n", "d", " ", "O", "p", "e", "n", " ", "X", "i", "a", "o", "h", "o", "n", "g", "s", "h", "u">>,
    <<"u6253", "u5F00", "u6296", "u97F3">>,
    <<"u70B9", "u51FB", "u94FE", "u63A5">> }

\* how a parser input ends: no URL, one URL, or two URLs
Tails == {
    <<>>,
    <<"h", "t", "t", "p", ":", "/", "/", "e", ".", "c", "o">>,
    <<"h", "t", "t", "p", "s", ":", "/", "/", "x", ".", "c", "o", "m", "/", "a", "/", "s", "t", "a", "t", "u", "s", "/", "1", " ", "h", "t", "t", "p", ":", "/", "/", "e", ".", "c", "o">> }

\* the messages the parser is run on
Messages == {Flatten(ps) \o tl : ps \in SeqsUpTo(Pieces, MaxPieces), tl \in Tails}

M_scenario_1 == <<"C", "h", "e", "c", "k", " ", "t", "h", "i", "s", " ", "o", "u", "t", ",", " ", "h", "t", "t", "p", "s", ":", "/", "/", "e", "x", "a", "m", "p", "l", "e", ".", "c", "o", "m", "/", "p", "a", "g", "e">>

U_example == <<"h", "t", "t", "p", "s", ":", "/", "/", "e", "x", "a", "m", "p", "l", "e", ".", "c", "o", "m", "/", "p", "a", "g", "e">>

U_tweet == <<"h", "t", "t", "p", "s", ":", "/", "/", "x", ".", "c", "o", "m", "/", "a", "l", "i", "c", "e", "/", "s", "t", "a", "t", "u", "s", "/", "4", "2">>

S_Check_this_out == <<"C", "h", "e", "c", "k", " ", "t", "h", "i", "s", " ", "o", "u", "t", ",">>

S_URL_hint == <<"U", "R", "L", ":", " ">>

\* the messages handle_message is run on
HandlerMessages == {
    M_scenario_1,
    U_example,
    U_tweet,
    <<"h", "e", "l", "l", "o", " ", "w", "o", "r", "l", "d">>,
    <<"a", "b", " ">> \o U_example,
    <<"H", "e", "y", " ", "u590D", "u5236", "u6B64", "u94FE", "u63A5", " ", "x", " ">> \o U_tweet,
    <<"uFF0C", "u6253", "u5F00", "u6296", "u97F3", " ">> \o U_example,
    <<"u590D", "u5236", "u6253", "u5F00", "u6296", "u97F3", "\n", "u70B9", "u51FB", "u94FE", "u63A5", " ">> \o U_example }

ResponseLines == {
    <<"T", "I", "T", "L", "E", ":", " ", "H", "e", "l", "l", "o">>,
    <<"T", "I", "T", "L", "E", ":", " ", "B", "y", "e">>,
    <<"T", "I", "T", "L", "E", ":">>,
    <<"C", "A", "T", "E", "G", "O", "R", "Y", ":", " ", "G", "o", "o", "d", " ", "D", "e", "s", "i", "g", "n">>,
    <<"C", "A", "T", "E", "G", "O", "R", "Y", ":", " ", "f", "i", "t", "n", "e", "s", "s">>,
    <<"C", "A", "T", "E", "G", "O", "R", "Y", ":">>,
    <<"C", "A", "T", "E", "G", "O", "R", "Y", ":", " ", "z", "z", "z">>,
    <<"F", "i", "t", "n", "e", "s", "s">>,
    <<"z", "z", "z">>,
    <<"C", "o", "l", "l", "e", "c", "t", "i", "o", "n">> }

\* the texts message.content[0].text can be
Responses == {Join(ls, <<"\n">>) : ls \in SeqsUpTo(ResponseLines, MaxLines)}

\* the outcomes of claude.messages.create(...) followed by
\* message.content[0].text: an exception, or a text
LLMOutcomes ==
    {[raised |-> TRUE, exc |-> e, text |-> <<>>] : e \in {"APITimeoutError", "IndexError"}}
    \cup {[raised |-> FALSE, exc |-> "", text |-> t] : t \in Responses}

\* the outcomes of the oembed request (bot.py 82-85): requests.get raises,
\* raise_for_status raises, response.json() raises, the markup cannot be
\* parsed, or the JSON object `data`
EmbedOutcomes ==
    {[kind |-> k, html |-> None, author_name |-> None] :
        k \in {"Timeout", "ConnectionError", "HTTPError", "JSONDecodeError", "TypeError"}}
    \cup {[kind |-> "data", html |-> h, author_name |-> a] :
            h \in {None, Some([blockquote |-> FALSE, paragraphs |-> <<>>])}
                \cup {Some([blockquote |-> TRUE, paragraphs |-> ps]) :
                        ps \in {<<>>, <<<<"h", "e", "l", "l", "o", " ", "w", "o", "r", "l", "d">>>>, << <<" ">> >>,
                                <<<<"h", "i">>, <<"y", "o">>>>}},
            a \in {None, Some(<<"a", "l", "i", "c", "e">>)}}

\* the values of a meta tag's content attribute: no tag or no attribute,
\* an empty attribute, or the text t
OptTexts(t) == {None, Some(<<>>), Some(t)}

\* the outcomes of the generic GET (bot.py 132-135): requests.get raises,
\* raise_for_status raises, or the parsed page
PageOutcomes ==
    {[kind |-> k, og_description |-> None, twitter_description |-> None,
      description |-> None, og_title |-> None, title_string |-> None] :
        k \in {"Timeout", "ConnectionError", "HTTPError"}}
    \cup {[kind |-> "page", og_description |-> a, twitter_description |-> b,
           description |-> c, og_title |-> d, title_string |-> e] :
            a \in OptTexts(<<"o", "g", "d">>), b \in OptTexts(<<"t", "w", "d">>),
            c \in OptTexts(<<"d", "e", "s", "c">>), d \in OptTexts(<<"o", "g", "t">>),
            e \in {None, Some(<<" ">>), Some(<<" ", "p", "g", " ">>)}}

\* the outcomes of notion.pages.create (bot.py 313-316)
SaveOutcomes ==
    {[kind |-> "created", exc |-> ""],
     [kind |-> "raises", exc |-> "API token is invalid."],
     [kind |-> "raises", exc |-> ""]}

\* The pure functions of the handler, tabulated over the handler's inputs

\* extract_message_parts(text), bot.py 329
PartsOf == [t \in HandlerMessages |-> extract_message_parts(t)]

\* get_category_from_claude, bot.py 354, by outcome of the model call
CategoryOf == [o \in LLMOutcomes |-> get_category_from_claude(o)]

\* get_title_and_category_from_claude, bot.py 338, 346 and 349, by outcome
\* of the model call
TitleAndCategoryOf == [o \in LLMOutcomes |-> get_title_and_category_from_claude(o)]

-----------------------------------------------------------------------------
\* bot.py 323-375: handle_message, one message at a time

\* one entry of `calls`: the external request `op` issued by the function
\* `fn` with the arguments `args`; failed says the request or the decoding of
\* its answer raised inside fn (exc is the text of that exception), raised
\* says fn raised to its caller, result is what fn returned
Call(op, fn, args, failed, exc, r) ==
    [op |-> op, fn |-> fn, args |-> args, failed |-> failed, exc |-> exc,
     raised |-> r.raised, result |-> r.value]

\* bot.py 361-365
SuccessReply(t, c) == <<"saved", t, c>>

\* bot.py 367-369
FailureReply(e) == <<"failed_to_save", e>>

\* bot.py 373-375
ErrorReply(e) == <<"error_processing", e>>

\* bot.py 371-375: the except clause of handle_message, entered when a call
\* inside the try block raised the exception e
Except(e) ==
    /\ replies' = Append(replies, ErrorReply(e))
    /\ pc' = "done"
    /\ escaped' = FALSE

\* bot.py 325-332: parse the text and acknowledge
Receive(t) ==
    /\ pc \in {"idle", "done"}
    /\ LET p == PartsOf[t]
       IN  /\ text' = t
           /\ title' = p.title
           /\ url' = p.url
           /\ needs_fetching' = p.needs_fetching
    /\ replies' = << <<"processing">> >>
    /\ calls' = <<>>
    /\ content' = None
    /\ category' = None
    /\ content_to_save' = None
    /\ saved' = <<>>
    /\ escaped' = FALSE
    /\ pc' = "try"
    /\ UNCHANGED <<cleaned, recleaned, response>>

\* bot.py 335-339: TYPE C, no URL
TypeC(o) ==
    /\ pc = "try"
    /\ url = None
    /\ LET r == TitleAndCategoryOf[o]
       IN  /\ calls' = Append(calls, Call("messages_create",
                          "get_title_and_category_from_claude", <<text, <<>>>>, o.raised, o.exc, r))
           /\ IF r.raised
              THEN Except(r.exc) /\ UNCHANGED <<title, category, content_to_save>>
              ELSE /\ title' = Some(r.value[1])
                   /\ category' = Some(r.value[2])
                   /\ content_to_save' = Some(text)
                   /\ pc' = "save"
                   /\ UNCHANGED <<replies, escaped>>
    /\ UNCHANGED <<text, url, needs_fetching, cleaned, recleaned, content, saved, response>>

\* lines 122-125 without the fall-through to the generic fetch: what
\* fetch_twitter_content returned is the result of fetch_url_content
FetchTwitterNoFallThrough(o) ==
    /\ pc = "try"
    /\ url # None
    /\ needs_fetching
    /\ is_twitter_url(url[1])
    /\ LET r == fetch_twitter_content(o)
       IN  /\ calls' = Append(calls, Call("oembed_get", "fetch_twitter_content",
                                           <<url[1]>>, o.kind # "data",
                                           IF o.kind # "data" THEN o.kind ELSE "", r))
           /\ content' = r.value
           /\ pc' = "classify"
    /\ UNCHANGED <<text, title, url, needs_fetching, cleaned, recleaned, category,
                   content_to_save, saved, response, replies, escaped>>

\* bot.py 343 with 122-125: TYPE B, fetch_url_content on a Twitter/X URL
\* calls fetch_twitter_content first
FetchTwitter(o) ==
    /\ pc = "try"
    /\ url # None
    /\ needs_fetching
    /\ is_twitter_url(url[1])
    /\ LET r == fetch_twitter_content(o)
       IN  /\ calls' = Append(calls, Call("oembed_get", "fetch_twitter_content",
                                           <<url[1]>>, o.kind # "data",
                                           IF o.kind # "data" THEN o.kind ELSE "", r))
           /\ IF r.raised
              THEN Except(r.exc) /\ UNCHANGED content
              ELSE /\ content' = IF Truthy(r.value) THEN r.value ELSE None
                   /\ pc' = IF Truthy(r.value) THEN "classify" ELSE "generic"
                   /\ UNCHANGED <<replies, escaped>>
    /\ UNCHANGED <<text, title, url, needs_fetching, cleaned, recleaned, category,
                   content_to_save, saved, response>>

\* bot.py 128-166: the generic fetch of fetch_url_content, for a URL that is
\* no Twitter/X URL or after fetch_twitter_content returned nothing
FetchGeneric(o) ==
    /\ \/ pc = "generic"
       \/ pc = "try" /\ url # None /\ needs_fetching /\ ~is_twitter_url(url[1])
    /\ LET r == fetch_generic(o)
       IN  /\ calls' = Append(calls, Call("page_get", "fetch_url_content",
                                           <<url[1]>>, o.kind # "page",
                                           IF o.kind # "page" THEN o.kind ELSE "", r))
           /\ IF r.raised
              THEN Except(r.exc) /\ UNCHANGED content
              ELSE /\ content' = r.value
                   /\ pc' = "classify"
                   /\ UNCHANGED <<replies, escaped>>
    /\ UNCHANGED <<text, title, url, needs_fetching, cleaned, recleaned, category,
                   content_to_save, saved, response>>

\* bot.py 345-349: the content handed to get_title_and_category_from_claude
type_b_content(c, u) == IF Truthy(c) THEN c[1] ELSE S_URL_hint \o u

\* bot.py 345-350: TYPE B, title and category from the fetched content
TypeBClassify(o) ==
    /\ pc = "classify"
    /\ LET r == TitleAndCategoryOf[o]
       IN  /\ calls' = Append(calls, Call("messages_create",
                          "get_title_and_category_from_claude",
                          <<type_b_content(content, url[1]), url[1]>>, o.raised, o.exc, r))
           /\ IF r.raised
              THEN Except(r.exc) /\ UNCHANGED <<title, category, content_to_save>>
              ELSE /\ title' = Some(r.value[1])
                   /\ category' = Some(r.value[2])
                   /\ content_to_save' = url
                   /\ pc' = "save"
                   /\ UNCHANGED <<replies, escaped>>
    /\ UNCHANGED <<text, url, needs_fetching, cleaned, recleaned, content, saved, response>>

\* TYPE A written like TYPE B: the title is asked from the model as well
TypeAViaTitleAndCategory(o) ==
    /\ pc = "try"
    /\ url # None
    /\ ~needs_fetching
    /\ LET r == TitleAndCategoryOf[o]
       IN  /\ calls' = Append(calls, Call("messages_create",
                          "get_title_and_category_from_claude",
                          <<title[1], url[1]>>, o.raised, o.exc, r))
           /\ title' = Some(r.value[1])
           /\ category' = Some(r.value[2])
           /\ content_to_save' = url
           /\ pc' = "save"
    /\ UNCHANGED <<text, url, needs_fetching, cleaned, recleaned, content, saved,
                   response, replies, escaped>>

\* bot.py 351-355: TYPE A, the text before the URL is the title
TypeA(o) ==
    /\ pc = "try"
    /\ url # None
    /\ ~needs_fetching
    /\ LET r == CategoryOf[o]
       IN  /\ calls' = Append(calls, Call("messages_create", "get_category_from_claude",
                                           <<title[1]>>, o.raised, o.exc, r))
           /\ IF r.raised
              THEN Except(r.exc) /\ UNCHANGED <<category, content_to_save>>
              ELSE /\ category' = Some(r.value)
                   /\ content_to_save' = url
                   /\ pc' = "save"
                   /\ UNCHANGED <<replies, escaped>>
    /\ UNCHANGED <<text, title, url, needs_fetching, cleaned, recleaned, content, saved,
                   response>>

\* line 358 with a second attempt when notion.pages.create raised
SaveWithRetry(o) ==
    /\ pc = "save"
    /\ LET r == save_to_notion(title[1], category[1], content_to_save[1], o)
           c == Call("pages_create", "save_to_notion",
                     <<title[1], category[1], content_to_save[1]>>,
                     o.kind # "created", o.exc, r)
       IN  /\ calls' = IF o.kind # "created" THEN calls \o <<c, c>> ELSE Append(calls, c)
           /\ saved' = r.value
           /\ pc' = "reply"
    /\ UNCHANGED <<text, title, url, needs_fetching, cleaned, recleaned, content, category,
                   content_to_save, response, replies, escaped>>

\* bot.py 358
Save(o) ==
    /\ pc = "save"
    /\ LET r == save_to_notion(title[1], category[1], content_to_save[1], o)
       IN  /\ calls' = Append(calls, Call("pages_create", "save_to_notion",
                          <<title[1], category[1], content_to_save[1]>>,
                          o.kind # "created", o.exc, r))
           /\ IF r.raised
              THEN Except(r.exc) /\ UNCHANGED saved
              ELSE /\ saved' = r.value
                   /\ pc' = "reply"
                   /\ UNCHANGED <<replies, escaped>>
    /\ UNCHANGED <<text, title, url, needs_fetching, cleaned, recleaned, content, category,
                   content_to_save, response>>

\* terminal_reply without the test of `success`: the confirmation is sent
\* whatever save_to_notion returned
terminal_reply_always_saved(success, error, t, c) == SuccessReply(t, c)

\* bot.py 360-369: the reply that depends on `success`
terminal_reply(success, error, t, c) ==
    IF success THEN SuccessReply(t, c) ELSE FailureReply(error)

\* bot.py 360-369
Reply ==
    /\ pc = "reply"
    /\ replies' = Append(replies, terminal_reply(saved[1], saved[2], title[1], category[1]))
    /\ pc' = "done"
    /\ UNCHANGED <<text, title, url, needs_fetching, cleaned, recleaned, content, category,
                   content_to_save, saved, calls, escaped, response>>

Init ==
    /\ pc = "idle"
    /\ text = <<>>
    /\ title = None
    /\ url = None
    /\ needs_fetching = FALSE
    /\ cleaned = None
    /\ recleaned = None
    /\ content = None
    /\ category = None
    /\ content_to_save = None
    /\ saved = <<>>
    /\ replies = <<>>
    /\ calls = <<>>
    /\ escaped = FALSE
    /\ response = None

Next ==
    \/ \E t \in HandlerMessages : Receive(t)
    \/ \E o \in LLMOutcomes : TypeC(o)
    \/ \E o \in EmbedOutcomes : FetchTwitter(o)
    \/ \E o \in PageOutcomes : FetchGeneric(o)
    \/ \E o \in LLMOutcomes : TypeBClassify(o)
    \/ \E o \in LLMOutcomes : TypeA(o)
    \/ \E o \in SaveOutcomes : Save(o)
    \/ Reply

Spec == Init /\ [][Next]_vars

-----------------------------------------------------------------------------
\* extract_message_parts on its own: the parser applied to every message of
\* Messages, and the noise loop applied once more to what it left

handler_vars == <<content, category, content_to_save, saved, replies, calls, escaped,
                  response>>

ParseInit ==
    /\ pc = "parse_input"
    /\ text \in Messages
    /\ title = None
    /\ url = None
    /\ needs_fetching = FALSE
    /\ cleaned = None
    /\ recleaned = None
    /\ content = None
    /\ category = None
    /\ content_to_save = None
    /\ saved = <<>>
    /\ replies = <<>>
    /\ calls = <<>>
    /\ escaped = FALSE
    /\ response = None

\* bot.py 43-71, keeping text_before_url as it is after the loop of 64-65
Parse ==
    /\ pc = "parse_input"
    /\ \E p \in {extract_message_parts(text)}, m \in {URL_PATTERN_search(text)} :
           /\ title' = p.title
           /\ url' = p.url
           /\ needs_fetching' = p.needs_fetching
           /\ cleaned' = IF m = <<>> THEN None ELSE Some(text_before_url(text, m))
    /\ pc' = "parsed"
    /\ UNCHANGED <<text, recleaned>>
    /\ UNCHANGED handler_vars

\* bot.py 64-65 run again on the cleaned prefix
Reapply ==
    /\ pc = "parsed"
    /\ cleaned # None
    /\ recleaned' = Some(NoiseLoop(cleaned[1], 1))
    /\ pc' = "reapplied"
    /\ UNCHANGED <<text, title, url, needs_fetching, cleaned>>
    /\ UNCHANGED handler_vars

ParseNext == Parse \/ Reapply

SpecParse == ParseInit /\ [][ParseNext]_vars

-----------------------------------------------------------------------------
\* The two language-model entry points on their own, on every outcome of
\* LLMOutcomes

EnrichInit ==
    /\ pc = "enrich_input"
    /\ response \in {Some(o) : o \in LLMOutcomes}
    /\ text = <<>>
    /\ title = None
    /\ url = None
    /\ needs_fetching = FALSE
    /\ cleaned = None
    /\ recleaned = None
    /\ content = None
    /\ category = None
    /\ content_to_save = None
    /\ saved = <<>>
    /\ replies = <<>>
    /\ calls = <<>>
    /\ escaped = FALSE

\* bot.py 180-212
Categorize ==
    /\ pc = "enrich_input"
    /\ LET r == CategoryOf[response[1]]
       IN  /\ category' = IF r.raised THEN None ELSE Some(r.value)
           /\ escaped' = r.raised
    /\ pc' = "categorized"
    /\ UNCHANGED <<text, title, url, needs_fetching, cleaned, recleaned, content,
                   content_to_save, saved, replies, calls, response>>

\* bot.py 215-271
TitleAndCategorize ==
    /\ pc = "enrich_input"
    /\ LET r == TitleAndCategoryOf[response[1]]
       IN  /\ title' = IF r.raised THEN None ELSE Some(r.value[1])
           /\ category' = IF r.raised THEN None ELSE Some(r.value[2])
           /\ escaped' = r.raised
    /\ pc' = "title_categorized"
    /\ UNCHANGED <<text, url, needs_fetching, cleaned, recleaned, content,
                   content_to_save, saved, replies, calls, response>>

EnrichNext == Categorize \/ TitleAndCategorize

SpecEnrich == EnrichInit /\ [][EnrichNext]_vars

-----------------------------------------------------------------------------
\* Properties of handle_message (checked under Spec)

\* the indices of the calls of `calls` that issued the request op
CallsOf(op) == {i \in 1..Len(calls) : calls[i].op = op}

\* the indices of the calls of `calls` made to the function fn
CallsTo(fn) == {i \in 1..Len(calls) : calls[i].fn = fn}

FetchCalls == CallsOf("oembed_get") \cup CallsOf("page_get")

\* the classification step has returned normally
Classified == pc \in {"save", "reply", "done"}

\* the message was parsed as a pure URL (TYPE B)
BareLink == pc # "idle" /\ url # None /\ needs_fetching

\* the message was parsed as a title followed by a URL (TYPE A)
TitledLink == pc # "idle" /\ url # None /\ ~needs_fetching

C2_BareLink ==
    (BareLink /\ Classified) =>
        /\ FetchCalls # {}
        /\ \A i \in FetchCalls, j \in CallsOf("messages_create") : i < j
        /\ \A j \in CallsOf("messages_create") :
            /\ calls[j].fn = "get_title_and_category_from_claude"
            /\ calls[j].args = IF content # None
                               THEN <<content[1], url[1]>>
                               ELSE <<S_URL_hint \o url[1], url[1]>>
        /\ content_to_save = url

\* C3: for the message "Check this out, https://example.com/page" the
\* handler calls get_title_and_category_from_claude with the content
\* "URL: https://example.com/page" and that url, and stores the URL.
C3_Scenario1 ==
    (text = M_scenario_1 /\ Classified) =>
        /\ \E j \in CallsTo("get_title_and_category_from_claude") :
                calls[j].args = <<S_URL_hint \o U_example, U_example>>
        /\ content_to_save = Some(U_example)

\* C3 as the code has it: "Check this out," has 15 characters, so the message
\* is a title followed by a URL: nothing is fetched, the only model call is
\* get_category_from_claude("Check this out,"), and the URL is stored.  The
\* call with "URL: https://example.com/page" is made for the message
\* "https://example.com/page" when fetch_url_content returns None.
C3_Scenario1_TitledLink ==
    /\ (text = M_scenario_1 /\ pc # "idle") =>
        /\ title = Some(S_Check_this_out)
        /\ url = Some(U_example)
        /\ ~needs_fetching
        /\ FetchCalls = {}
        /\ CallsTo("get_title_and_category_from_claude") = {}
    /\ (text = M_scenario_1 /\ Classified) =>
        /\ Len(calls) >= 1
        /\ calls[1].fn = "get_category_from_claude"
        /\ calls[1].args = <<S_Check_this_out>>
        /\ content_to_save = Some(U_example)
    /\ (text = U_example /\ Classified /\ content = None) =>
        /\ \E j \in CallsTo("get_title_and_category_from_claude") :
                calls[j].args = <<S_URL_hint \o U_example, U_example>>
        /\ content_to_save = Some(U_example)

\* scenario 1 handled to its end, and saved
C3_Witness ==
    /\ text = M_scenario_1
    /\ pc = "done"
    /\ replies[2][1] = "saved"

\* C4: for a title followed by a URL the handler issues no fetch (neither the
\* oembed request nor the page GET) and never calls
\* get_title_and_category_from_claude; the title saved is the parsed title,
\* the category is what get_category_from_claude(title) returned and the
\* content saved is the url.
C4_TitledLink ==
    TitledLink =>
        /\ FetchCalls = {}
        /\ CallsTo("get_title_and_category_from_claude") = {}
        /\ title = PartsOf[text].title
        /\ Classified =>
            /\ Cardinality(CallsTo("get_category_from_claude")) = 1
            /\ \A j \in CallsTo("get_category_from_claude") :
                /\ calls[j].args = <<PartsOf[text].title[1]>>
                /\ category = Some(calls[j].result)
            /\ content_to_save = url
        /\ \A k \in CallsOf("pages_create") :
                calls[k].args = <<PartsOf[text].title[1], category[1], url[1]>>

\* a title followed by a Twitter/X URL, saved without any fetch
C4_Witness ==
    /\ TitledLink
    /\ pc = "done"
    /\ is_twitter_url(url[1])
    /\ CallsOf("pages_create") # {}

\* C5: fetch_url_content never raises: whatever the oembed request and the
\* page GET do (timeout, connection error, non-2xx status, malformed JSON or
\* markup), fetch_twitter_content and fetch_url_content return to their
\* caller, and the one whose request failed returns None.
C5_FetchNeverRaises ==
    /\ \A i \in FetchCalls :
        /\ ~calls[i].raised
        /\ calls[i].failed => calls[i].result = None
    /\ (pc = "classify" /\ \E i \in CallsOf("page_get") : calls[i].failed) => content = None

\* both requests of one fetch failed, and the handler goes on without content
C5_Witness ==
    /\ pc = "classify"
    /\ content = None
    /\ \E i \in CallsOf("oembed_get") : calls[i].failed /\ calls[i].exc = "JSONDecodeError"
    /\ \E i \in CallsOf("page_get") : calls[i].failed /\ calls[i].exc = "Timeout"

\* C6: every category the two language-model functions return, for every
\* response text and for a failed call, is a member of CATEGORIES, and so is
\* every category given to save_to_notion.
C6_CategoryInDomain ==
    /\ category # None => in_CATEGORIES(category[1])
    /\ \A j \in CallsTo("get_category_from_claude") : in_CATEGORIES(calls[j].result)
    /\ \A j \in CallsTo("get_title_and_category_from_claude") :
            in_CATEGORIES(calls[j].result[2])
    /\ \A k \in CallsOf("pages_create") : in_CATEGORIES(calls[k].args[2])

\* a category that was repaired from the model's text reaches save_to_notion
C6_Witness ==
    /\ pc = "done"
    /\ \E j \in CallsTo("get_category_from_claude") :
            ~calls[j].failed /\ calls[j].result = CATEGORIES[5]
    /\ \E k \in CallsOf("pages_create") : calls[k].args[2] = CATEGORIES[5]

\* C10: within one message the oembed request, the page GET, the model
\* completion and the record creation are each issued at most once, whatever
\* their outcome, and the record creation is issued exactly once for every
\* message whose classification returned.
C10_NoRetry ==
    /\ \A op \in {"oembed_get", "page_get", "messages_create", "pages_create"} :
            Cardinality(CallsOf(op)) <= 1
    /\ \A i \in 1..Len(calls) :
            calls[i].op \in {"oembed_get", "page_get", "messages_create", "pages_create"}
    /\ (pc \in {"reply", "done"} /\ \E j \in CallsOf("messages_create") : ~calls[j].raised)
            => Cardinality(CallsOf("pages_create")) = 1

\* every request of one message failed, each issued once
C10_Witness ==
    /\ pc = "done"
    /\ Len(calls) = 4
    /\ \A i \in 1..4 : calls[i].failed

-----------------------------------------------------------------------------
\* Properties of the language-model functions (checked under SpecEnrich)

\* the text after the marker of a line that starts with it, trimmed
ValueAfter(line, marker) == strip(SubSeq(line, Len(marker) + 1, Len(line)))

\* v names a label of CATEGORIES: it is not empty and it matches a label,
\* ignoring case, as a substring in one direction or the other
NamesLabel(v) == v # <<>> /\ CloseMatches(v) # {}

\* C7: the two fields default independently: with no line that supplies a
\* TITLE: value the title is "Untitled"; with the CATEGORY: line absent,
\* empty after the marker or naming no label the category is
\* "Idea Collection"; a failed call gives ("Untitled", "Idea Collection").
\* (A line that starts with TITLE: is taken to supply a value, even an empty
\* one, so that only the category can make this fail.)
C7_Defaults ==
    pc = "title_categorized" =>
        LET o == response[1]
            lines == split_lines(strip(o.text))
            titled == {k \in 1..Len(lines) : startswith(lines[k], S_TITLE)}
            labelled == {k \in 1..Len(lines) :
                        startswith(lines[k], S_CATEGORY)
                        /\ NamesLabel(ValueAfter(lines[k], S_CATEGORY))}
        IN  IF o.raised
            THEN title = Some(S_Untitled) /\ category = Some(S_Idea_Collection)
            ELSE /\ titled = {} => title = Some(S_Untitled)
                 /\ labelled = {} => category = Some(S_Idea_Collection)

-----------------------------------------------------------------------------
\* Properties of extract_message_parts (checked under SpecParse)

S_http_scheme == <<"h", "t", "t", "p", ":", "/", "/">>

S_https_scheme == <<"h", "t", "t", "p", "s", ":", "/", "/">>

\* a URL token starts at position i of s: a scheme followed by a character
\* that is no whitespace
UrlTokenAt(s, i) ==
    \/ /\ StartsWithAt(s, i, S_http_scheme)
       /\ i + 7 <= Len(s)
       /\ ~IsSpace(s[i + 7])
    \/ /\ StartsWithAt(s, i, S_https_scheme)
       /\ i + 8 <= Len(s)
       /\ ~IsSpace(s[i + 8])

\* C8: a message with a URL token is parsed from its first URL token: the url
\* is that token up to the next whitespace, the text strictly before it is
\* trimmed and stripped of the noise patterns, and the result is a pure URL
\* (title None, needs_fetching) when the cleaned text has at most 2
\* characters and a titled URL (title the cleaned text, no fetching) when it
\* has more; a message with no URL token gives (None, None, False).
C8_Parse ==
    pc \in {"parsed", "reapplied"} =>
        LET toks == {i \in 1..Len(text) : UrlTokenAt(text, i)}
        IN  IF toks = {}
            THEN title = None /\ url = None /\ ~needs_fetching
            ELSE LET i0 == Min(toks)
                     prefix == NoiseLoop(strip(SubSeq(text, 1, i0 - 1)), 1)
                 IN  /\ url # None
                     /\ url[1] # <<>>
                     /\ StartsWithAt(text, i0, url[1])
                     /\ \A k \in 1..Len(url[1]) : ~IsSpace(url[1][k])
                     /\ i0 + Len(url[1]) <= Len(text) => IsSpace(text[i0 + Len(url[1])])
                     /\ cleaned = Some(prefix)
                     /\ Len(prefix) <= 2 => title = None /\ needs_fetching
                     /\ Len(prefix) > 2 => title = Some(prefix) /\ ~needs_fetching

\* two characters are left before the first of two URLs: a pure URL
C8_Witness ==
    /\ pc = "parsed"
    /\ cleaned # None
    /\ Len(cleaned[1]) = 2
    /\ title = None
    /\ needs_fetching
    /\ Cardinality({i \in 1..Len(text) : UrlTokenAt(text, i)}) = 2

\* C9: the noise loop is idempotent: applied again to the prefix it has
\* cleaned, it changes nothing.
C9_Idempotent == pc = "reapplied" => recleaned = cleaned

-----------------------------------------------------------------------------
\* bot.py 323-375 and 395-406: several updates in flight.  handle_message is
\* a coroutine of the one event loop started by run_polling; it gives the
\* loop back only at its `await`s (lines 332, 361, 367 and 373).  The
\* requests of lines 82, 132, 186, 227 and 313 are plain synchronous calls:
\* from the return of the first await to the next one the coroutine, and
\* with it the thread of the loop, is either running or inside such a call.
\* Here pc, text and replies are functions of the task; only what decides
\* the position of a coroutine is kept (what the calls return is in Spec).

\* the number of updates in flight
NumTasks == 2

Tasks == 1..NumTasks

S_hello_world == <<"h", "e", "l", "l", "o", " ", "w", "o", "r", "l", "d">>

\* the texts of the updates in flight: a bare link, a bare Twitter/X link,
\* a titled link and a text without a link
LoopMessages == {U_example, U_tweet, M_scenario_1, S_hello_world}

\* the positions of a coroutine inside a synchronous request
InFetchOrModelCall == {"in_oembed_get", "in_page_get", "in_messages_create"}

InCall == InFetchOrModelCall \cup {"in_pages_create"}

\* the positions of a coroutine suspended at an await of reply_text
AtAwait == {"await_ack", "await_reply"}

\* the thread of the event loop is not inside a request made by a task
\* other than i
OnLoop(i) == \A j \in Tasks \ {i} : pc[j] \notin InCall

\* bot.py 334-355 and 116-132: the first request handle_message makes for
\* the text t
first_call(t) ==
    LET p == PartsOf[t]
    IN  IF p.url = None THEN "in_messages_create"
        ELSE IF p.needs_fetching
             THEN IF is_twitter_url(p.url[1]) THEN "in_oembed_get" ELSE "in_page_get"
             ELSE "in_messages_create"

\* bot.py 82, 132, 186, 227, 313: the timeout argument of each request
call_timeout(op) ==
    CASE op = "oembed_get" -> Some(10)
      [] op = "page_get" -> Some(10)
      [] op = "messages_create" -> None
      [] op = "pages_create" -> None

loop_unchanged == <<title, url, needs_fetching, cleaned, recleaned, content, category,
                    content_to_save, saved, calls, escaped, response>>

\* bot.py 323-332: the loop starts the coroutine for an update; it runs to
\* the await of the acknowledgment
Dispatch(i, t) ==
    /\ pc[i] \in {"idle", "done"}
    /\ OnLoop(i)
    /\ text' = [text EXCEPT ![i] = t]
    /\ replies' = [replies EXCEPT ![i] = <<"processing">>]
    /\ pc' = [pc EXCEPT ![i] = "await_ack"]
    /\ UNCHANGED loop_unchanged

\* bot.py 332-355: the acknowledgment is sent, the loop resumes the coroutine
\* and it runs into its first request
Resume(i) ==
    /\ pc[i] = "await_ack"
    /\ OnLoop(i)
    /\ pc' = [pc EXCEPT ![i] = first_call(text[i])]
    /\ UNCHANGED <<text, replies>>
    /\ UNCHANGED loop_unchanged

\* bot.py 82-108 and 122-132: the oembed request returns; with content the
\* coroutine goes on to the model call of line 346, without to the GET of
\* line 132
EmbedReturn(i, o) ==
    /\ pc[i] = "in_oembed_get"
    /\ pc' = [pc EXCEPT ![i] = IF Truthy(fetch_twitter_content(o).value)
                               THEN "in_messages_create" ELSE "in_page_get"]
    /\ UNCHANGED <<text, replies>>
    /\ UNCHANGED loop_unchanged

\* bot.py 132-166 and 345-349: the GET returns; the coroutine goes on to the
\* model call of line 346 or 349
PageReturn(i, o) ==
    /\ pc[i] = "in_page_get"
    /\ ~fetch_generic(o).raised
    /\ pc' = [pc EXCEPT ![i] = "in_messages_create"]
    /\ UNCHANGED <<text, replies>>
    /\ UNCHANGED loop_unchanged

\* bot.py 186-212, 227-271 and 358: claude.messages.create returns; the
\* coroutine goes on to notion.pages.create
ModelReturn(i, o) ==
    /\ pc[i] = "in_messages_create"
    /\ ~TitleAndCategoryOf[o].raised
    /\ ~CategoryOf[o].raised
    /\ pc' = [pc EXCEPT ![i] = "in_pages_create"]
    /\ UNCHANGED <<text, replies>>
    /\ UNCHANGED loop_unchanged

\* bot.py 313-320 and 360-369: notion.pages.create returns; the coroutine
\* runs to the await of its terminal reply
SaveReturn(i, o) ==
    /\ pc[i] = "in_pages_create"
    /\ LET r == save_to_notion(<<>>, <<>>, <<>>, o)
       IN  replies' = [replies EXCEPT ![i] =
                          Append(@, IF r.value[1] THEN "saved" ELSE "failed_to_save")]
    /\ pc' = [pc EXCEPT ![i] = "await_reply"]
    /\ UNCHANGED text
    /\ UNCHANGED loop_unchanged

\* bot.py 361-369: the terminal reply is sent, the loop resumes the
\* coroutine and it returns
Delivered(i) ==
    /\ pc[i] = "await_reply"
    /\ OnLoop(i)
    /\ pc' = [pc EXCEPT ![i] = "done"]
    /\ UNCHANGED <<text, replies>>
    /\ UNCHANGED loop_unchanged

LoopInit ==
    /\ pc = [i \in Tasks |-> "idle"]
    /\ text = [i \in Tasks |-> <<>>]
    /\ replies = [i \in Tasks |-> <<>>]
    /\ title = None
    /\ url = None
    /\ needs_fetching = FALSE
    /\ cleaned = None
    /\ recleaned = None
    /\ content = None
    /\ category = None
    /\ content_to_save = None
    /\ saved = <<>>
    /\ calls = <<>>
    /\ escaped = FALSE
    /\ response = None

LoopNext ==
    \/ \E i \in Tasks, t \in LoopMessages : Dispatch(i, t)
    \/ \E i \in Tasks : Resume(i)
    \/ \E i \in Tasks, o \in EmbedOutcomes : EmbedReturn(i, o)
    \/ \E i \in Tasks, o \in PageOutcomes : PageReturn(i, o)
    \/ \E i \in Tasks, o \in LLMOutcomes : ModelReturn(i, o)
    \/ \E i \in Tasks, o \in SaveOutcomes : SaveReturn(i, o)
    \/ \E i \in Tasks : Delivered(i)

SpecLoop == LoopInit /\ [][LoopNext]_vars

-----------------------------------------------------------------------------
\* Properties of the handlers of several updates (checked under SpecLoop)

\* C11: an external call made for one message suspends only that message's
\* task: while the social-embed fetch, the page fetch or the model call of a
\* task is outstanding, a task of another message that waits at an await
\* can take its next step.
C11_OthersProgress ==
    \A i \in Tasks, j \in Tasks :
        (i # j /\ pc[i] \in InFetchOrModelCall /\ pc[j] \in AtAwait)
            => ENABLED (Resume(j) \/ Delivered(j))

-----------------------------------------------------------------------------
\* The handlers under the assumption that a request issued with a timeout
\* returns or raises within it

\* the request of task i returns or raises, if it was issued with a timeout
TimedReturn(i) ==
    \/ call_timeout("oembed_get") # None /\ \E o \in EmbedOutcomes : EmbedReturn(i, o)
    \/ call_timeout("page_get") # None /\ \E o \in PageOutcomes : PageReturn(i, o)
    \/ call_timeout("messages_create") # None /\ \E o \in LLMOutcomes : ModelReturn(i, o)

\* the loop resumes a coroutine whose await has completed
LoopStep(i) == Resume(i) \/ Delivered(i)

\* Every request with a timeout ends; the loop runs its ready coroutines in
\* first-in first-out order, so one that is ready again and again is
\* resumed; and the persistence request (not one of the three kinds of call
\* the timeouts are about) is taken to end as well.
LoopFairness ==
    \A i \in Tasks :
        /\ WF_vars(TimedReturn(i))
        /\ SF_vars(LoopStep(i))
        /\ WF_vars(\E o \in SaveOutcomes : SaveReturn(i, o))

SpecLoopTimed == LoopInit /\ [][LoopNext]_vars /\ LoopFairness

\* C12: each of the three kinds of external call is issued with a timeout,
\* so that, when every call with a timeout returns or fails within it, the
\* handling of every acknowledged message reaches its terminal reply.
C12_ReachesTerminalReply ==
    \A i \in Tasks : (pc[i] = "await_ack") ~> (pc[i] \in {"await_reply", "done"})

-----------------------------------------------------------------------------
\* Properties of the language-model functions (checked under SpecEnrich),
\* continued

\* C13: when the response has more than one line that begins with TITLE:
\* the title is the trimmed text after the marker of the first of them, and
\* when it has more than one line that begins with CATEGORY: the category is
\* the one the first of them gives, repaired as in get_category_from_claude;
\* later marker lines change nothing.
C13_FirstMarker ==
    (pc = "title_categorized" /\ ~response[1].raised) =>
        LET lines == split_lines(strip(response[1].text))
            titles == {k \in 1..Len(lines) : startswith(lines[k], S_TITLE)}
            cats == {k \in 1..Len(lines) : startswith(lines[k], S_CATEGORY)}
        IN  /\ Cardinality(titles) > 1
                => title = Some(ValueAfter(lines[Min(titles)], S_TITLE))
            /\ Cardinality(cats) > 1
                => category = Some(category_from_text(ValueAfter(lines[Min(cats)], S_CATEGORY)))

\* C14: get_category_from_claude returns the trimmed response r when r is a
\* label of CATEGORIES; otherwise the first label c, in the order of
\* CATEGORIES, whose lowercase is a substring of lowercase r or contains it;
\* and "Idea Collection", the second entry, when no label matches or the
\* call failed.
C14_Repair ==
    pc = "categorized" =>
        LET o == response[1]
            r == strip(o.text)
            matching == {k \in 1..Len(CATEGORIES) :
                            \/ Contains(lower(r), lower(CATEGORIES[k]))
                            \/ Contains(lower(CATEGORIES[k]), lower(r))}
        IN  /\ ~escaped
            /\ category = Some(IF o.raised THEN S_Idea_Collection
                               ELSE IF \E k \in 1..Len(CATEGORIES) : CATEGORIES[k] = r THEN r
                               ELSE IF matching # {} THEN CATEGORIES[Min(matching)]
                               ELSE CATEGORIES[2])

\* a response that is no label and that two labels match has been repaired
\* to the first of them, which is not the first entry of CATEGORIES
C14_Witness ==
    /\ pc = "categorized"
    /\ ~response[1].raised
    /\ ~in_CATEGORIES(strip(response[1].text))
    /\ Cardinality(CloseMatches(strip(response[1].text))) = 2
    /\ category = Some(S_Idea_Collection)

-----------------------------------------------------------------------------
\* Properties of fetch_url_content (checked under Spec)

\* the URL of the message in hand is a Twitter/X status URL
SocialUrl == url # None /\ is_twitter_url(url[1])

\* C15: for a social URL the embed request comes first; text from it is the
\* result of the fetch and no page GET is issued; when it failed or gave no
\* text the page GET runs next and its result is the result of the fetch.
\* For any other URL the embed endpoint is never called.
C15_SocialFallback ==
    /\ \A k \in CallsOf("oembed_get") : k = 1 /\ SocialUrl
    /\ \A k \in CallsOf("page_get") :
        IF SocialUrl
        THEN k = 2 /\ calls[1].op = "oembed_get" /\ ~Truthy(calls[1].result)
        ELSE k = 1
    /\ (calls # <<>> /\ calls[1].op = "oembed_get") =>
        IF Truthy(calls[1].result)
        THEN CallsOf("page_get") = {} /\ content = calls[1].result
        ELSE \/ pc = "generic" /\ Len(calls) = 1
             \/ /\ Len(calls) >= 2
                /\ calls[2].op = "page_get"
                /\ content = calls[2].result

\* the embed request of a social URL failed, the page GET ran next and gave
\* the content
C15_Witness ==
    /\ SocialUrl
    /\ pc = "classify"
    /\ Len(calls) = 2
    /\ calls[1].op = "oembed_get" /\ calls[1].failed
    /\ calls[2].op = "page_get" /\ ~calls[2].failed
    /\ Truthy(content)

\* a candidate of the generic adapter that is present and not empty
NonEmpty(c) == c # None /\ c[1] # <<>>

\* the candidates of the page o in the order of bot.py 138-160, the text of
\* <title> trimmed
Candidates(o) ==
    <<o.og_description, o.twitter_description, o.description, o.og_title,
      IF o.title_string = None THEN None ELSE Some(strip(o.title_string[1]))>>

\* the first candidate of the page o that is not empty, None without one
FirstNonEmpty(o) ==
    LET found == {k \in 1..Len(Candidates(o)) : NonEmpty(Candidates(o)[k])}
    IN  IF found = {} THEN None ELSE Candidates(o)[Min(found)]

\* C16: on a successful GET the generic adapter returns the first non-empty
\* candidate in the order og:description, twitter:description, description,
\* og:title, <title> text, and None when no candidate is non-empty, a
\* <title> that is empty or whitespace-only included.
C16_FirstNonEmpty ==
    [][\A o \in PageOutcomes :
          (o.kind = "page" /\ FetchGeneric(o)) => content' = FirstNonEmpty(o)]_vars

====
